---- MODULE Spec2Model ----
(***************************************************************************)
(* Model of package problemdetails (middleware.go): the Recoverer and      *)
(* ProblemDetailsConverter middlewares, the pooled responseInterceptor and *)
(* the net/http ResponseWriter they drive.                                 *)
(*                                                                         *)
(* A request runs a chain of middlewares (outermost first) around a        *)
(* handler.  The handler is the environment: it calls WriteHeader, Write   *)
(* and Header().Set on the writer it was given, may call the package's     *)
(* Write itself, and ends by returning or panicking.                       *)
(***************************************************************************)
EXTENDS Integers, Sequences, FiniteSets, TLC

\* ---- bounds of the model ----
NumReqs == 2       \* request slots (each slot has its own real ResponseWriter)
NumRi   == 2       \* responseInterceptor instances that can exist
ConcOps == 1       \* calls a handler makes when requests run concurrently
MaxOps  == 3       \* calls a handler makes before it returns or panics

\* ---- program constants ----
StatusOK                  == 200
StatusInternalServerError == 500
ErrorStatusMin            == 400
CallersSkip               == 3

Reqs == 1..NumReqs
Ris  == 1..NumRi
Nil  == 0          \* the nil ResponseWriter reference

\* Strings are sequences of tokens, so that a prefix test is a real test.
EmptyStr   == << >>
ProblemCT  == <<"application/problem+json">>
ProblemCTc == <<"application/problem+json", "; charset=utf-8">>
PlainCT    == <<"text/plain">>

HasPrefix(s, p) == Len(s) >= Len(p) /\ SubSeq(s, 1, Len(p)) = p

HdrKeys   == {"Content-Type", "Content-Encoding", "Vary", "Content-Length"}
NoHeaders == [k \in HdrKeys |-> EmptyStr]
HeaderGet(h, k) == h[k]
HeaderSet(h, k, v) == [h EXCEPT ![k] = v]
HeaderDel(h, k) == [h EXCEPT ![k] = EmptyStr]

ErrAbortHandler == "http.ErrAbortHandler"
None == "none"

\* ---- the real http.ResponseWriter ----
\* hdr: the header map; status: the committed status (0: not committed);
\* wire: the headers sent at commit; body: bytes sent; nWH / nW: calls received.
NewWriter ==
    [hdr |-> NoHeaders, status |-> 0, wire |-> NoHeaders, body |-> << >>,
     nWH |-> 0, nW |-> 0]

RwWriteHeader(rw, code) ==
    IF rw.status = 0
    THEN [rw EXCEPT !.status = code, !.wire = rw.hdr, !.nWH = @ + 1]
    ELSE [rw EXCEPT !.nWH = @ + 1]

RwWrite(rw, body) ==
    LET c == IF rw.status = 0
             THEN [rw EXCEPT !.status = StatusOK, !.wire = rw.hdr]
             ELSE rw
    IN [c EXCEPT !.body = @ \o body, !.nW = @ + 1]

\* ---- responseInterceptor ----
NewInterceptor == [rw |-> Nil, status |-> 0, bodyWritten |-> FALSE]

\* The heap the middlewares act on: interceptors, real writers, and the log
\* of calls to the package's Write and to logCallback, per request.
\* S = [ri |-> ..., w |-> ..., ev |-> ..., ret |-> ..., ctx |-> ...]

\* a variant of WriteHeader in which the first recorded code stays
RiWriteHeader_FirstWins(S, i, status) ==
    [S EXCEPT !.ri[i].status = IF @ # 0 THEN @ ELSE status]

RiWriteHeader(S, i, status) == [S EXCEPT !.ri[i].status = status]

\* a variant of Write whose first committing call sends the header and loses the bytes
RiWrite_HeaderOnly(S, i, body) ==
    LET x == S.ri[i] IN
    IF x.status >= ErrorStatusMin /\ Len(body) = 0
    THEN [S EXCEPT !.ret = [n |-> 0, err |-> None]]
    ELSE IF ~x.bodyWritten
         THEN LET st == IF x.status = 0 THEN StatusOK ELSE x.status
              IN [S EXCEPT !.ri[i].status = st,
                           !.ri[i].bodyWritten = TRUE,
                           !.w[x.rw] = RwWriteHeader(@, st),
                           !.ret = [n |-> Len(body), err |-> None]]
         ELSE [S EXCEPT !.w[x.rw] = RwWrite(@, body),
                        !.ret = [n |-> Len(body), err |-> None]]

\* a variant of Write that marks the response committed when it swallows
RiWrite_SwallowCommits(S, i, body) ==
    LET x == S.ri[i] IN
    IF x.status >= ErrorStatusMin /\ Len(body) = 0
    THEN [S EXCEPT !.ri[i].bodyWritten = TRUE, !.ret = [n |-> 0, err |-> None]]
    ELSE LET st == IF ~x.bodyWritten /\ x.status = 0 THEN StatusOK ELSE x.status
             w1 == IF ~x.bodyWritten THEN RwWriteHeader(S.w[x.rw], st) ELSE S.w[x.rw]
         IN [S EXCEPT !.ri[i].status = st,
                      !.ri[i].bodyWritten = TRUE,
                      !.w[x.rw] = RwWrite(w1, body),
                      !.ret = [n |-> Len(body), err |-> None]]

RiWrite(S, i, body) ==
    LET x == S.ri[i] IN
    IF x.status >= ErrorStatusMin /\ Len(body) = 0
    THEN [S EXCEPT !.ret = [n |-> 0, err |-> None]]
    ELSE LET st == IF ~x.bodyWritten /\ x.status = 0 THEN StatusOK ELSE x.status
             w1 == IF ~x.bodyWritten THEN RwWriteHeader(S.w[x.rw], st) ELSE S.w[x.rw]
         IN [S EXCEPT !.ri[i].status = st,
                      !.ri[i].bodyWritten = TRUE,
                      !.w[x.rw] = RwWrite(w1, body),
                      !.ret = [n |-> Len(body), err |-> None]]

\* ---- the writer a middleware or handler holds: the interceptor or the real one
RiCh(i) == [kind |-> "ri", id |-> i]
RwCh(r) == [kind |-> "rw", id |-> r]

ChTarget(S, ch) == IF ch.kind = "ri" THEN S.ri[ch.id].rw ELSE ch.id

ChHeaderSet(S, ch, k, v) ==
    LET t == ChTarget(S, ch) IN [S EXCEPT !.w[t].hdr = HeaderSet(@, k, v)]

\* Header().Set for every header of hs that has a value
SetIfGiven(h, hs, k) == IF hs[k] = EmptyStr THEN h ELSE HeaderSet(h, k, hs[k])

ChHeadersSet(S, ch, hs) ==
    LET t  == ChTarget(S, ch)
        h1 == SetIfGiven(S.w[t].hdr, hs, "Content-Type")
        h2 == SetIfGiven(h1, hs, "Content-Encoding")
        h3 == SetIfGiven(h2, hs, "Vary")
        h4 == SetIfGiven(h3, hs, "Content-Length")
    IN [S EXCEPT !.w[t].hdr = h4]

ChWriteHeader(S, ch, code) ==
    IF ch.kind = "ri" THEN RiWriteHeader(S, ch.id, code)
    ELSE [S EXCEPT !.w[ch.id] = RwWriteHeader(@, code)]

ChWrite(S, ch, body) ==
    IF ch.kind = "ri" THEN RiWrite(S, ch.id, body)
    ELSE [S EXCEPT !.w[ch.id] = RwWrite(@, body),
                   !.ret = [n |-> Len(body), err |-> None]]

\* the *Context that ProblemDetailsContext puts in the request's context
\* (pd: no object, or the one *ProblemDetails it points to)
NoDetails == << >>
NewContext == [pd |-> NoDetails]

\* ---- the package's Write(w, r, status, detail, code) ----
\* the serialized problem details object, as tokens
ProblemBody(status, detail) ==
    <<"{\"status\":", ToString(status), ",\"detail\":\"">> \o detail \o <<"\"}">>

PdWrite(S, r, ch, by, status, detail, code) ==
    LET S1 == ChHeaderSet(S, ch, "Content-Type", ProblemCT)
        S2 == ChWriteHeader(S1, ch, status)
        S3 == ChWrite(S2, ch, ProblemBody(status, detail))
    IN [S3 EXCEPT !.ev[r] = Append(@, [op |-> "Write", by |-> by, on |-> ch.kind,
                                       status |-> status, detail |-> detail,
                                       code |-> code]),
                 !.ctx[r].pd = << [status |-> status, detail |-> detail, code |-> code] >>]

LogCallback(S, r, status) ==
    [S EXCEPT !.ev[r] = Append(@, [op |-> "log", by |-> "Converter", on |-> None,
                                   status |-> status, detail |-> EmptyStr,
                                   code |-> EmptyStr])]

\* ---- Recoverer: the detail string (middleware.go 37-49) ----
\* A stack is the sequence of frames seen from runtime.Callers, innermost
\* first; a frame is <<file, line>>.
MiddlewareFrame(m) ==
    IF m = "Recoverer" THEN <<"problemdetails/middleware.go", "55">>
    ELSE <<"problemdetails/middleware.go", "101">>

RECURSIVE ChainFrames(_)
\* frames of the middlewares of a chain (outermost first in the chain), seen
\* from the handler: each closure is entered through HandlerFunc.ServeHTTP
ChainFrames(chain) ==
    IF chain = << >> THEN << >>
    ELSE ChainFrames(Tail(chain))
         \o << <<"net/http/server.go", "HandlerFunc.ServeHTTP">>, MiddlewareFrame(Head(chain)) >>

PanicStack(chain) ==
    << <<"runtime/extern.go", "Callers">>,
       <<"problemdetails/middleware.go", "41">>,
       <<"runtime/panic.go", "gopanic">>,
       <<"handler.go", "26">> >>
    \o ChainFrames(chain)
    \o << <<"net/http/server.go", "HandlerFunc.ServeHTTP">>,
          <<"net/http/server.go", "serverHandler.ServeHTTP">>,
          <<"net/http/server.go", "conn.serve">> >>

\* runtime.Callers(skip, pc) with a buffer of one entry
Callers(skip, stack) ==
    IF skip >= 0 /\ skip < Len(stack) THEN <<stack[skip + 1]>> ELSE << >>

\* a variant of the detail that has no fallback when the frame does not resolve
PanicDetail_NoFallback(rec, idx, stack) ==
    LET pcs == IF idx >= 0 THEN Callers(idx + CallersSkip, stack) ELSE << >>
    IN IF idx >= 0
       THEN IF Len(pcs) = 1
            THEN <<"panic: '", rec, "' at ", pcs[1][1], ":", pcs[1][2]>>
            ELSE EmptyStr
       ELSE <<"panic: '", rec, "'">>

PanicDetail(rec, idx, stack) ==
    LET pcs == IF idx >= 0 THEN Callers(idx + CallersSkip, stack) ELSE << >>
        d1  == IF idx >= 0 /\ Len(pcs) = 1
               THEN <<"panic: '", rec, "' at ", pcs[1][1], ":", pcs[1][2]>>
               ELSE EmptyStr
    IN IF d1 = EmptyStr THEN <<"panic: '", rec, "'">> ELSE d1

\* a variant of the classification that does not look at the Connection header
Classify_NoUpgrade(rec, connection) ==
    IF rec = ErrAbortHandler THEN "repanic" ELSE "write"

\* a variant of the classification that looks at the Connection header first
Classify_UpgradeFirst(rec, connection) ==
    IF connection = <<"Upgrade">> THEN "silent"
    ELSE IF rec = ErrAbortHandler THEN "repanic"
    ELSE "write"

\* What the deferred function of Recoverer does with a recovered value:
\* "repanic", "silent", or "write" (middleware.go 27-52).
Classify(rec, connection) ==
    IF rec = ErrAbortHandler THEN "repanic"
    ELSE IF connection = <<"Upgrade">> THEN "silent"
    ELSE "write"

RecovererRecoverS(S, r, ch, rec, connection, idx, stack) ==
    IF Classify(rec, connection) = "write"
    THEN PdWrite(S, r, ch, "Recoverer", StatusInternalServerError,
                 PanicDetail(rec, idx, stack), EmptyStr)
    ELSE S

\* ---- ProblemDetailsConverter ----
\* a variant of the acquisition that binds the writer and resets nothing else
ConverterEnterS_NoReset(S, r, i) == [S EXCEPT !.ri[i].rw = r]

\* a variant of the acquisition that binds the writer only of an unbound instance
ConverterEnterS_KeepBound(S, r, i) ==
    [S EXCEPT !.ri[i] = [rw |-> IF S.ri[i].rw = Nil THEN r ELSE S.ri[i].rw,
                         status |-> 0, bodyWritten |-> FALSE]]

\* middleware.go 95-98: the interceptor taken from the pool is bound and reset
ConverterEnterS(S, r, i) ==
    [S EXCEPT !.ri[i] = [rw |-> r, status |-> 0, bodyWritten |-> FALSE]]

\* a variant of the test that takes only the exact media type as conformant
Converts_ExactType(S, r, i) ==
    /\ S.ri[i].status >= ErrorStatusMin
    /\ ~S.ri[i].bodyWritten
    /\ HeaderGet(S.w[r].hdr, "Content-Type") # ProblemCT

\* middleware.go 105: is the response converted?
Converts(S, r, i) ==
    /\ S.ri[i].status >= ErrorStatusMin
    /\ ~S.ri[i].bodyWritten
    /\ ~HasPrefix(HeaderGet(S.w[r].hdr, "Content-Type"), ProblemCT)

\* a variant without the fixup of a status that was only recorded
ConverterAfterS_NoFixup(S, r, i) ==
    LET S0 == [S EXCEPT !.ri[i].rw = Nil]
        st == S0.ri[i].status
    IN IF Converts(S0, r, i)
       THEN LET h1 == HeaderDel(S0.w[r].hdr, "Content-Encoding")
                h2 == HeaderDel(h1, "Vary")
                h3 == HeaderDel(h2, "Content-Length")
                S1 == [S0 EXCEPT !.w[r].hdr = h3]
                S2 == PdWrite(S1, r, RwCh(r), "Converter", st, EmptyStr, EmptyStr)
            IN LogCallback(S2, r, st)
       ELSE S0

\* a variant whose fixup does not look at bodyWritten
ConverterAfterS_FixupAlways(S, r, i) ==
    LET S0 == [S EXCEPT !.ri[i].rw = Nil]
        st == S0.ri[i].status
    IN IF Converts(S0, r, i)
       THEN LET h1 == HeaderDel(S0.w[r].hdr, "Content-Encoding")
                h2 == HeaderDel(h1, "Vary")
                h3 == HeaderDel(h2, "Content-Length")
                S1 == [S0 EXCEPT !.w[r].hdr = h3]
                S2 == PdWrite(S1, r, RwCh(r), "Converter", st, EmptyStr, EmptyStr)
            IN LogCallback(S2, r, st)
       ELSE IF st # 0
            THEN [S0 EXCEPT !.w[r] = RwWriteHeader(@, st)]
            ELSE S0

\* a variant of the conversion that leaves the Vary header in place
ConverterAfterS_KeepVary(S, r, i) ==
    LET S0 == [S EXCEPT !.ri[i].rw = Nil]
        st == S0.ri[i].status
    IN IF Converts(S0, r, i)
       THEN LET h1 == HeaderDel(S0.w[r].hdr, "Content-Encoding")
                h3 == HeaderDel(h1, "Content-Length")
                S1 == [S0 EXCEPT !.w[r].hdr = h3]
                S2 == PdWrite(S1, r, RwCh(r), "Converter", st, EmptyStr, EmptyStr)
            IN LogCallback(S2, r, st)
       ELSE IF ~S0.ri[i].bodyWritten /\ st # 0
            THEN [S0 EXCEPT !.w[r] = RwWriteHeader(@, st)]
            ELSE S0

\* middleware.go 103-120: after next.ServeHTTP returned
ConverterAfterS(S, r, i) ==
    LET S0 == [S EXCEPT !.ri[i].rw = Nil]
        st == S0.ri[i].status
    IN IF Converts(S0, r, i)
       THEN LET h1 == HeaderDel(S0.w[r].hdr, "Content-Encoding")
                h2 == HeaderDel(h1, "Vary")
                h3 == HeaderDel(h2, "Content-Length")
                S1 == [S0 EXCEPT !.w[r].hdr = h3]
                S2 == PdWrite(S1, r, RwCh(r), "Converter", st, EmptyStr, EmptyStr)
            IN LogCallback(S2, r, st)
       ELSE IF ~S0.ri[i].bodyWritten /\ st # 0
            THEN [S0 EXCEPT !.w[r] = RwWriteHeader(@, st)]
            ELSE S0

\* ---- ProblemDetailsContext (middleware.go 80-85) ----
\* the request gets a new, empty *Context before next.ServeHTTP
ContextEnterS(S, r) == [S EXCEPT !.ctx[r] = NewContext]

\* Details()
Details(c) == c.pd

\* ---- requests ----
\* every chain has the Converter; Recoverer is outside it, inside it, or absent
Chains == { <<"Recoverer", "Converter">>, <<"Converter", "Recoverer">>,
            <<"Converter">> }
Connections == { EmptyStr, <<"Upgrade">> }
FrameIdxs  == { -1, 0, 20 }
Codes      == { 0, 204, 404 }
Bodies     == { << >>, <<"a">>, <<"b">> }
HandlerProblems == { 404 }
HandlerDetail == <<"Invalid input">>
HandlerErrCode == <<"errcodes.InvalidInput">>
PanicVals  == { ErrAbortHandler, "foo" }
\* the headers a handler sets in one go
HandlerHeaders ==
    { [NoHeaders EXCEPT !["Content-Type"] = ProblemCTc],
      [NoHeaders EXCEPT !["Content-Type"] = PlainCT,
                        !["Content-Encoding"] = <<"gzip">>,
                        !["Vary"] = <<"Accept-Encoding">>,
                        !["Content-Length"] = <<"0">>] }

NoCfg == [chain |-> << >>, connection |-> EmptyStr, idx |-> -1]
NoRet == [n |-> 0, err |-> None]
NoOp  == [op |-> None, code |-> 0, body |-> << >>, hs |-> NoHeaders]

VARIABLES
    nextReq,        \* the number the next request gets
    ri,             \* interceptor instances: [rw, status, bodyWritten]
    pool,           \* interceptorPool: the instances that sit in it
    w,              \* the real ResponseWriter of each request
    ev,             \* per request: calls of the package's Write and of logCallback
    ret,            \* per request: what the handler's last Write call returned
    pc,             \* per request: idle, handler, return, panic, done, escaped
    pos,            \* per request: the middleware control reaches next (0: the server)
    cfg,            \* per request: its chain, its Connection header and the
                    \* stackFrameIdx its Recoverer was built with
    held,           \* per request: the interceptor its Converter holds (0: none)
    got,            \* per request: how Get produced it: "new" or "pooled"
    tr,             \* per request: the calls its handler has made
    pv,             \* per request: the value its handler panicked with
    ctx             \* per request: its *Context (pd: what Details() returns)

vars == <<nextReq, ri, pool, w, ev, ret, pc, pos, cfg, held, got, tr, pv, ctx>>

Heap(r) == [ri |-> ri, w |-> w, ev |-> ev, ret |-> ret[r], ctx |-> ctx]

\* the heap after a call of the handler, whose result the handler sees
SetHeap(r, T) ==
    /\ ri' = T.ri
    /\ w' = T.w
    /\ ev' = T.ev
    /\ ctx' = T.ctx
    /\ ret' = [ret EXCEPT ![r] = T.ret]

\* the heap after a middleware acted
SetHeapM(T) ==
    /\ ri' = T.ri
    /\ w' = T.w
    /\ ev' = T.ev
    /\ ctx' = T.ctx
    /\ ret' = ret

\* is there a Converter outside position p of the chain?
ConverterOutside(chain, p) ==
    \E q \in 1..Len(chain) : q < p /\ chain[q] = "Converter"

\* the writer the code at position p of request r was handed
WriterAt(r, p) ==
    IF ConverterOutside(cfg[r].chain, p) THEN RiCh(held[r]) ELSE RwCh(r)

HandlerWriter(r) == WriterAt(r, Len(cfg[r].chain) + 1)

Init ==
    /\ nextReq = 1
    /\ ri = [i \in Ris |-> NewInterceptor]
    /\ pool = {}
    /\ w = [r \in Reqs |-> NewWriter]
    /\ ev = [r \in Reqs |-> << >>]
    /\ ret = [r \in Reqs |-> NoRet]
    /\ pc = [r \in Reqs |-> "idle"]
    /\ pos = [r \in Reqs |-> 0]
    /\ cfg = [r \in Reqs |-> NoCfg]
    /\ held = [r \in Reqs |-> 0]
    /\ got = [r \in Reqs |-> None]
    /\ tr = [r \in Reqs |-> << >>]
    /\ pv = [r \in Reqs |-> None]
    /\ ctx = [r \in Reqs |-> NewContext]

\* instances that were never made: neither pooled nor held
Unmade == { j \in Ris : j \notin pool /\ \A r \in Reqs : held[r] # j }

\* interceptorPool.Get(): an instance of the pool, or, when the pool is
\* empty, the one New makes
PoolGet(i) ==
    \/ i \in pool
    \/ /\ pool = {}
       /\ i \in Unmade
       /\ \A j \in Unmade : i <= j

\* A request enters its chain and reaches the handler; requests are served
\* one after another and numbered in arrival order (modulo NumReqs).
Start(r) ==
    /\ \A q \in Reqs : pc[q] = "idle"
    /\ r = nextReq
    /\ nextReq' = (r % NumReqs) + 1
    /\ \E chain \in Chains :
        /\ cfg' = [cfg EXCEPT ![r].chain = chain]
        /\ IF \E p \in 1..Len(chain) : chain[p] = "Converter"
           THEN \E i \in Ris :
                  /\ PoolGet(i)
                  /\ pool' = pool \ {i}
                  /\ held' = [held EXCEPT ![r] = i]
                  /\ got' = [got EXCEPT ![r] = IF i \in pool THEN "pooled" ELSE "new"]
                  /\ SetHeapM(ConverterEnterS(ContextEnterS(Heap(r), r), r, i))
           ELSE /\ SetHeapM(ContextEnterS(Heap(r), r))
                /\ UNCHANGED <<pool, held, got>>
    /\ pc' = [pc EXCEPT ![r] = "handler"]
    /\ UNCHANGED <<pos, tr, pv>>

\* one call of the handler on the writer ch it was handed
ApplyOp(S, r, ch, o) ==
    CASE o.op = "WriteHeader" -> ChWriteHeader(S, ch, o.code)
      [] o.op = "Write"       -> ChWrite(S, ch, o.body)
      [] o.op = "SetHeader"   -> ChHeadersSet(S, ch, o.hs)
      [] o.op = "PdWrite"     -> PdWrite(S, r, ch, "handler", o.code, HandlerDetail, HandlerErrCode)

HandlerStep(r, o) ==
    /\ pc[r] = "handler"
    /\ Len(tr[r]) < MaxOps
    /\ tr' = [tr EXCEPT ![r] = Append(@, o)]
    /\ SetHeap(r, ApplyOp(Heap(r), r, HandlerWriter(r), o))
    /\ UNCHANGED <<nextReq, pool, pc, pos, cfg, held, got, pv>>

HWriteHeader(r) ==
    \E code \in Codes :
        HandlerStep(r, [NoOp EXCEPT !.op = "WriteHeader", !.code = code])

HWrite(r) ==
    \E body \in Bodies :
        HandlerStep(r, [NoOp EXCEPT !.op = "Write", !.body = body])

HSetHeader(r) ==
    \E hs \in HandlerHeaders :
        HandlerStep(r, [NoOp EXCEPT !.op = "SetHeader", !.hs = hs])

\* the handler calls problemdetails.Write itself
HCallWrite(r) ==
    \E code \in HandlerProblems :
        HandlerStep(r, [NoOp EXCEPT !.op = "PdWrite", !.code = code])

Leave(r, kind) ==
    LET n == Len(cfg[r].chain) IN
    /\ pos' = [pos EXCEPT ![r] = n]
    /\ pc' = [pc EXCEPT ![r] = kind]

HReturn(r) ==
    /\ pc[r] = "handler"
    /\ Leave(r, "return")
    /\ UNCHANGED <<nextReq, ri, pool, w, ev, ret, cfg, held, got, tr, pv, ctx>>

HPanic(r) ==
    /\ pc[r] = "handler"
    /\ \E v \in PanicVals : pv' = [pv EXCEPT ![r] = v]
    \* what only the recovery reads is drawn here
    /\ \E connection \in Connections, idx \in FrameIdxs :
          cfg' = [cfg EXCEPT ![r].connection = connection, ![r].idx = idx]
    /\ Leave(r, "panic")
    /\ UNCHANGED <<nextReq, ri, pool, w, ev, ret, held, got, tr, ctx>>

\* control moves from position pos[r] to the next middleware out, or to the server
MoveOut(r, kind) ==
    /\ pos' = [pos EXCEPT ![r] = @ - 1]
    /\ pc' = [pc EXCEPT ![r] =
                 IF pos[r] > 1 THEN kind
                 ELSE IF kind = "return" THEN "done" ELSE "escaped"]

AtMiddleware(r, kind, m) ==
    /\ pc[r] = kind
    /\ pos[r] >= 1
    /\ cfg[r].chain[pos[r]] = m

\* ProblemDetailsConverter after next.ServeHTTP returned, with the deferred Put
ConverterAfter(r) ==
    /\ AtMiddleware(r, "return", "Converter")
    /\ SetHeapM(ConverterAfterS(Heap(r), r, held[r]))
    /\ pool' = pool \cup {held[r]}
    /\ held' = [held EXCEPT ![r] = 0]
    /\ MoveOut(r, "return")
    /\ UNCHANGED <<nextReq, cfg, got, tr, pv>>

\* a panic passes through ProblemDetailsConverter: only the deferred Put runs
ConverterUnwind(r) ==
    /\ AtMiddleware(r, "panic", "Converter")
    /\ pool' = pool \cup {held[r]}
    /\ held' = [held EXCEPT ![r] = 0]
    /\ MoveOut(r, "panic")
    /\ UNCHANGED <<nextReq, ri, w, ev, ret, cfg, got, tr, pv, ctx>>

\* Recoverer when next.ServeHTTP returned: recover() yields nil
RecovererAfter(r) ==
    /\ AtMiddleware(r, "return", "Recoverer")
    /\ MoveOut(r, "return")
    /\ UNCHANGED <<nextReq, ri, pool, w, ev, ret, cfg, held, got, tr, pv, ctx>>

\* Recoverer's deferred function with a recovered value
RecovererRecover(r) ==
    /\ AtMiddleware(r, "panic", "Recoverer")
    /\ SetHeapM(RecovererRecoverS(Heap(r), r, WriterAt(r, pos[r]), pv[r],
                                    cfg[r].connection, cfg[r].idx,
                                     PanicStack(cfg[r].chain)))
    /\ IF Classify(pv[r], cfg[r].connection) = "repanic"
       THEN MoveOut(r, "panic") /\ pv' = pv
       ELSE MoveOut(r, "return") /\ pv' = pv
    /\ UNCHANGED <<nextReq, pool, cfg, held, got, tr>>

\* the server is done with the request; its writer is gone
Finish(r) ==
    /\ pc[r] \in {"done", "escaped"}
    /\ pc' = [pc EXCEPT ![r] = "idle"]
    /\ w' = [w EXCEPT ![r] = NewWriter]
    /\ ev' = [ev EXCEPT ![r] = << >>]
    /\ ret' = [ret EXCEPT ![r] = NoRet]
    /\ cfg' = [cfg EXCEPT ![r] = NoCfg]
    /\ tr' = [tr EXCEPT ![r] = << >>]
    /\ pv' = [pv EXCEPT ![r] = None]
    /\ got' = [got EXCEPT ![r] = None]
    /\ ctx' = [ctx EXCEPT ![r] = NewContext]
    /\ UNCHANGED <<nextReq, ri, pool, pos, held>>

Next ==
    \E r \in Reqs :
        \/ Start(r)
        \/ HWriteHeader(r)
        \/ HWrite(r)
        \/ HSetHeader(r)
        \/ HCallWrite(r)
        \/ HReturn(r)
        \/ HPanic(r)
        \/ ConverterAfter(r)
        \/ ConverterUnwind(r)
        \/ RecovererAfter(r)
        \/ RecovererRecover(r)
        \/ Finish(r)

Spec == Init /\ [][Next]_vars

(***************************************************************************)
(* Properties                                                              *)
(***************************************************************************)
HasConverter(chain) == \E p \in 1..Len(chain) : chain[p] = "Converter"
HasRecoverer(chain) == \E p \in 1..Len(chain) : chain[p] = "Recoverer"
HasBoth(chain) == HasConverter(chain) /\ HasRecoverer(chain)

EntityHeaders == {"Content-Encoding", "Vary", "Content-Length"}

WriteEvent(by, on, status, detail) ==
    [op |-> "Write", by |-> by, on |-> on, status |-> status, detail |-> detail,
     code |-> EmptyStr]
LogEvent(status) ==
    [op |-> "log", by |-> "Converter", on |-> None, status |-> status, detail |-> EmptyStr,
     code |-> EmptyStr]

EventsOf(r, op, by) == { k \in 1..Len(ev[r]) : ev[r][k].op = op /\ ev[r][k].by = by }

\* this step is the Converter of request r resuming after next.ServeHTTP returned
ConverterReturns(r) == AtMiddleware(r, "return", "Converter") /\ pos'[r] # pos[r]

Conformant(r) == HasPrefix(HeaderGet(w[r].hdr, "Content-Type"), ProblemCT)

\* C1: when the handler returned normally with a recorded status >= 400, no
\* committing write and a Content-Type that is not problem+json, the Converter
\* deletes Content-Encoding, Vary and Content-Length and calls the Writer on the
\* real writer with that status and an empty detail: the response has that
\* status, a non-empty problem body, a problem+json Content-Type and none of
\* the three headers.
C1_EmptyErrorConverted ==
    [][ \A r \in Reqs :
          ( /\ ConverterReturns(r)
            /\ pv[r] = None
            /\ ri[held[r]].status >= ErrorStatusMin
            /\ ~ri[held[r]].bodyWritten
            /\ ~Conformant(r) )
          => LET st == ri[held[r]].status IN
             /\ Len(ev'[r]) > Len(ev[r])
             /\ ev'[r][Len(ev[r]) + 1] = WriteEvent("Converter", "rw", st, EmptyStr)
             /\ w'[r].status = st
             /\ w'[r].body = ProblemBody(st, EmptyStr)
             /\ w'[r].body # << >>
             /\ HasPrefix(w'[r].wire["Content-Type"], ProblemCT)
             /\ \A k \in EntityHeaders :
                   w'[r].wire[k] = EmptyStr /\ w'[r].hdr[k] = EmptyStr
      ]_vars

C1_Witness ==
    \E r \in Reqs :
        /\ pc[r] = "done" /\ pv[r] = None
        /\ w[r].status = 404
        /\ w[r].body = ProblemBody(404, EmptyStr)
        /\ w[r].wire["Vary"] = EmptyStr
        /\ \E k \in 1..Len(tr[r]) : tr[r][k].op = "Write" /\ tr[r][k].body = << >>
        /\ \E k \in 1..Len(tr[r]) :
              tr[r][k].op = "SetHeader" /\ tr[r][k].hs["Vary"] # EmptyStr

\* C2: every response of a handler that returned normally with a status >= 400
\* either already had a problem+json Content-Type or carries the problem body
\* the Writer emitted for the Converter, whether or not the handler wrote a body.
C2_AllErrorsConverted ==
    \A r \in Reqs :
        (pc[r] = "done" /\ pv[r] = None /\ w[r].status >= ErrorStatusMin)
        => \/ /\ EventsOf(r, "Write", "Converter") # {}
              /\ w[r].body = ProblemBody(w[r].status, EmptyStr)
           \/ /\ EventsOf(r, "Write", "Converter") = {}
              /\ Conformant(r)

\* the bytes and the number of Write calls of a handler's calls so far
RECURSIVE HandlerBytes(_)
HandlerBytes(t) ==
    IF t = << >> THEN << >>
    ELSE LET o == Head(t) IN
         (CASE o.op = "Write"   -> o.body
            [] o.op = "PdWrite" -> ProblemBody(o.code, HandlerDetail)
            [] OTHER            -> << >>) \o HandlerBytes(Tail(t))

NumWrites(t) == Cardinality({ k \in 1..Len(t) : t[k].op \in {"Write", "PdWrite"} })

BelowError(t) ==
    \A k \in 1..Len(t) :
        t[k].op \in {"WriteHeader", "PdWrite"} => t[k].code < ErrorStatusMin

\* C3: while the recorded status stays below 400 (or is never set), at every
\* point of the handler's execution and after it returned, the bytes the real
\* writer received are the concatenation, in order, of the slices the handler
\* passed to Write, and each Write call was forwarded as one call.
C3_PassThrough ==
    \A r \in Reqs :
        (pc[r] \in {"handler", "return", "done"} /\ pv[r] = None /\ BelowError(tr[r]))
        => /\ w[r].body = HandlerBytes(tr[r])
           /\ w[r].nW = NumWrites(tr[r])

C3_Witness ==
    \E r \in Reqs :
        /\ pc[r] = "done" /\ pv[r] = None /\ BelowError(tr[r])
        /\ w[r].body = <<"a", "b">>
        /\ w[r].nW = 3
        /\ w[r].status = StatusOK

Upgrade == <<"Upgrade">>

\* C4: a request with Connection: Upgrade whose handler panics with a value
\* other than the abort sentinel, under a chain with Recoverer and Converter in
\* either order: the panic does not leave the chain, the Writer is never called
\* by a middleware, and the real writer holds only the handler's own bytes.
C4_UpgradePanicSilent ==
    \A r \in Reqs :
        ( /\ HasBoth(cfg[r].chain)
          /\ pv[r] \notin {None, ErrAbortHandler}
          /\ cfg[r].connection = Upgrade )
        => /\ pc[r] # "escaped"
           /\ EventsOf(r, "Write", "Recoverer") = {}
           /\ EventsOf(r, "Write", "Converter") = {}
           /\ w[r].body = HandlerBytes(tr[r])

\* C5: once the handler has panicked with http.ErrAbortHandler under a chain
\* with a Recoverer, the panic stays in flight with that same value until it
\* reaches the server, and no step changes the real writer or calls the Writer.
C5_AbortReraised ==
    [][ \A r \in Reqs :
          (pc[r] = "panic" /\ pv[r] = ErrAbortHandler /\ HasRecoverer(cfg[r].chain))
          => /\ pc'[r] \in {"panic", "escaped"}
             /\ pv'[r] = ErrAbortHandler
             /\ w'[r] = w[r]
             /\ ev'[r] = ev[r]
      ]_vars

C5_Witness ==
    \E r \in Reqs :
        /\ pc[r] = "escaped" /\ pv[r] = ErrAbortHandler
        /\ cfg[r].chain = <<"Converter", "Recoverer">>
        /\ cfg[r].connection = Upgrade /\ cfg[r].idx = 0
        /\ w[r].body = <<"a">> /\ w[r].nWH = 1
        /\ EventsOf(r, "Write", "Recoverer") = {}

\* this step is a Write call of the handler of request r with the slice body
HandlerWrites(r, body) ==
    /\ pc[r] = "handler"
    /\ Len(tr'[r]) = Len(tr[r]) + 1
    /\ tr'[r][Len(tr'[r])].op = "Write"
    /\ tr'[r][Len(tr'[r])].body = body

\* C6: a Write of an empty slice on the interceptor while the recorded status
\* is >= 400 and nothing is committed returns (0, nil), leaves bodyWritten false
\* and the status as it was, and calls nothing on the real writer.
C6_EmptyWriteSwallowed ==
    [][ \A r \in Reqs :
          ( /\ HandlerWrites(r, << >>)
            /\ held[r] # 0
            /\ ri[held[r]].status >= ErrorStatusMin
            /\ ~ri[held[r]].bodyWritten )
          => /\ ret'[r] = [n |-> 0, err |-> None]
             /\ ri' = ri
             /\ w' = w
             /\ ev' = ev
      ]_vars

\* two empty writes in a row after WriteHeader(404), still uncommitted
C6_Witness ==
    \E r \in Reqs :
        /\ pc[r] = "handler" /\ Len(tr[r]) = 3
        /\ tr[r][1].op = "WriteHeader" /\ tr[r][1].code = 404
        /\ tr[r][2].op = "Write" /\ tr[r][2].body = << >>
        /\ tr[r][3].op = "Write" /\ tr[r][3].body = << >>
        /\ ~ri[held[r]].bodyWritten /\ ri[held[r]].status = 404
        /\ w[r].nW = 0 /\ w[r].nWH = 0

\* C7: when the handler starts running under a Converter, the interceptor it
\* is handed has status 0, bodyWritten false and the request's own writer,
\* whether Get made it or took it from the pool after an earlier request.
C7_FreshFromPool ==
    \A r \in Reqs :
        (pc[r] = "handler" /\ tr[r] = << >> /\ HasConverter(cfg[r].chain))
        => /\ held[r] \in Ris
           /\ HandlerWriter(r) = RiCh(held[r])
           /\ ri[held[r]] = [rw |-> r, status |-> 0, bodyWritten |-> FALSE]

\* the second request starts with the instance the first one put back
C7_Witness ==
    \E r \in Reqs :
        /\ pc[r] = "handler" /\ tr[r] = << >>
        /\ r = 2 /\ got[r] = "pooled" /\ held[r] = 1
        /\ ri[held[r]] = [rw |-> r, status |-> 0, bodyWritten |-> FALSE]

\* the code of the handler's last WriteHeader call (0: none)
RECURSIVE LastCode(_)
LastCode(t) ==
    IF t = << >> THEN 0
    ELSE LET o == t[Len(t)] IN
         IF o.op = "WriteHeader" THEN o.code ELSE LastCode(SubSeq(t, 1, Len(t) - 1))

\* C8: when the handler returned normally with a non-zero recorded status and
\* no committing write, and the response is not converted (status below 400,
\* or a Content-Type that starts with application/problem+json), the Converter
\* commits the last recorded status on the real writer exactly once, writes no
\* bytes, calls neither the Writer nor logCallback and leaves the headers alone.
C8_StatusOnlyFixup ==
    [][ \A r \in Reqs :
          ( /\ ConverterReturns(r)
            /\ pv[r] = None
            /\ ~ri[held[r]].bodyWritten
            /\ ri[held[r]].status # 0
            /\ (ri[held[r]].status < ErrorStatusMin \/ Conformant(r)) )
          => /\ ri[held[r]].status = LastCode(tr[r])
             /\ w'[r].status = LastCode(tr[r])
             /\ w[r].nWH = 0 /\ w'[r].nWH = 1
             /\ w'[r].nW = 0 /\ w'[r].body = << >>
             /\ ev'[r] = ev[r] /\ ev[r] = << >>
             /\ w'[r].hdr = w[r].hdr
             /\ w'[r].wire = w[r].hdr
      ]_vars

\* WriteHeader(204) then WriteHeader(404) under a problem+json Content-Type with
\* a charset parameter: 404 is committed once, nothing is written
C8_Witness ==
    \E r \in Reqs :
        /\ pc[r] = "done" /\ pv[r] = None
        /\ Len(tr[r]) = 3 /\ tr[r][2].op = "WriteHeader" /\ tr[r][2].code = 204
        /\ w[r].status = 404 /\ w[r].nWH = 1 /\ w[r].nW = 0 /\ w[r].body = << >>
        /\ w[r].wire["Content-Type"] = ProblemCTc
        /\ ev[r] = << >>

\* C9: logCallback is called exactly once for each request the Converter
\* converts, right after the Writer call and with the same status, and never
\* for a request it does not convert: one whose handler committed a body, whose
\* status is below 400, whose Content-Type is conformant, or whose handler
\* panicked.
C9_LogOncePerConversion ==
    \A r \in Reqs :
        LET cw == EventsOf(r, "Write", "Converter")
            lg == EventsOf(r, "log", "Converter")
        IN /\ Cardinality(lg) <= 1
           /\ Cardinality(lg) = Cardinality(cw)
           /\ \A k \in lg :
                 /\ k > 1
                 /\ ev[r][k - 1] = WriteEvent("Converter", "rw", ev[r][k].status, EmptyStr)
                 /\ w[r].status = ev[r][k].status
                 /\ w[r].status >= ErrorStatusMin
                 /\ w[r].body = ProblemBody(w[r].status, EmptyStr)
           /\ (pv[r] # None => lg = {})

\* ---- one request run on its own, from its chain, its handler's calls and
\* ---- the way the handler ended
InitHeap ==
    [ri |-> [i \in Ris |-> NewInterceptor], w |-> [q \in Reqs |-> NewWriter],
     ev |-> [q \in Reqs |-> << >>], ret |-> NoRet,
     ctx |-> [q \in Reqs |-> NewContext]]

RECURSIVE RunOps(_, _, _, _)
RunOps(S, r, ch, t) ==
    IF t = << >> THEN S ELSE RunOps(ApplyOp(S, r, ch, Head(t)), r, ch, Tail(t))

\* control leaves the handler and passes the middlewares p, p-1, ..., 1;
\* e = [mode, v, connection, idx]: how the handler ended
RECURSIVE Unwind(_, _, _, _, _, _)
Unwind(S, r, chain, p, mode, e) ==
    IF p = 0 THEN [heap |-> S, mode |-> mode]
    ELSE IF chain[p] = "Converter"
    THEN IF mode = "return"
         THEN Unwind(ConverterAfterS(S, r, 1), r, chain, p - 1, "return", e)
         ELSE Unwind(S, r, chain, p - 1, "panic", e)
    ELSE IF mode = "return"
         THEN Unwind(S, r, chain, p - 1, "return", e)
         ELSE IF Classify(e.v, e.connection) = "repanic"
              THEN Unwind(S, r, chain, p - 1, "panic", e)
              ELSE Unwind(RecovererRecoverS(S, r,
                              IF ConverterOutside(chain, p) THEN RiCh(1) ELSE RwCh(r),
                              e.v, e.connection, e.idx, PanicStack(chain)),
                          r, chain, p - 1, "return", e)

Replay(r, chain, t, e) ==
    LET C0 == ContextEnterS(InitHeap, r)
        S0 == IF HasConverter(chain) THEN ConverterEnterS(C0, r, 1) ELSE C0
        ch == IF HasConverter(chain) THEN RiCh(1) ELSE RwCh(r)
    IN Unwind(RunOps(S0, r, ch, t), r, chain, Len(chain), e.mode, e)

\* how the handler of a finished request ended
EndOf(r) ==
    [mode |-> IF pv[r] = None THEN "return" ELSE "panic", v |-> pv[r],
     connection |-> cfg[r].connection, idx |-> cfg[r].idx]

Finished(r) == pc[r] \in {"done", "escaped"}

\* a finished request is what the replay of its own chain computes
ReplayAgrees ==
    \A r \in Reqs :
        Finished(r) =>
            LET x == Replay(r, cfg[r].chain, tr[r], EndOf(r)) IN
            /\ x.heap.w[r] = w[r]
            /\ x.heap.ev[r] = ev[r]
            /\ x.mode = IF pc[r] = "done" THEN "return" ELSE "panic"

Reverse(chain) == [k \in 1..Len(chain) |-> chain[Len(chain) + 1 - k]]

\* what the client is sent
Delivered(rw) == [status |-> rw.status, headers |-> rw.wire, body |-> rw.body]

\* C10: for every handler behaviour and request, the chain with Recoverer
\* outside the Converter and the chain with Recoverer inside it deliver the same
\* status, headers and body, and the Converter calls neither the Writer nor
\* logCallback for a request whose panic the Recoverer handled.
C10_OrderIrrelevant ==
    \A r \in Reqs :
        (Finished(r) /\ HasBoth(cfg[r].chain)) =>
            LET other == Replay(r, Reverse(cfg[r].chain), tr[r], EndOf(r)) IN
            /\ Delivered(w[r]) = Delivered(other.heap.w[r])
            /\ (pv[r] \notin {None, ErrAbortHandler}
                  => /\ EventsOf(r, "Write", "Converter") = {}
                     /\ EventsOf(r, "log", "Converter") = {})

\* the Recoverer of request r has absorbed a panic that was not the abort sentinel
Absorbed(r) ==
    /\ HasRecoverer(cfg[r].chain)
    /\ pv[r] \notin {None, ErrAbortHandler}
    /\ pc[r] \in {"return", "done"}

PlainDetail(v) == <<"panic: '", v, "'">>
LocatedDetail(v, frame) == <<"panic: '", v, "' at ", frame[1], ":", frame[2]>>

\* C11: for a panic that is neither the abort sentinel nor on an Upgrade
\* request, Recoverer calls the Writer once with status 500, an empty error
\* code and a detail that is "panic: '<v>'" when stackFrameIdx < 0 or when the
\* offset stackFrameIdx + 3 is beyond the stack, and "panic: '<v>' at
\* <file>:<line>" of the frame at that offset otherwise; it is never empty.
C11_PanicDetail ==
    \A r \in Reqs :
        (Absorbed(r) /\ cfg[r].connection # Upgrade)
        => LET ks    == EventsOf(r, "Write", "Recoverer")
               stack == PanicStack(cfg[r].chain)
               idx   == cfg[r].idx
               off   == idx + CallersSkip
           IN /\ Cardinality(ks) = 1
              /\ \A k \in ks :
                    /\ ev[r][k].status = StatusInternalServerError
                    /\ ev[r][k].code = EmptyStr
                    /\ ev[r][k].detail # EmptyStr
                    /\ ev[r][k].detail =
                          IF idx < 0 THEN PlainDetail(pv[r])
                          ELSE IF off < Len(stack)
                               THEN LocatedDetail(pv[r], stack[off + 1])
                               ELSE PlainDetail(pv[r])

\* stackFrameIdx = 0 locates the panicking function
C11_Witness ==
    \E r \in Reqs :
        /\ Absorbed(r) /\ cfg[r].connection # Upgrade /\ cfg[r].idx = 0
        /\ pc[r] = "done"
        /\ \E k \in EventsOf(r, "Write", "Recoverer") :
              /\ ev[r][k].detail = <<"panic: '", "foo", "' at ", "handler.go", ":", "26">>
              /\ ev[r][k].status = StatusInternalServerError

\* the calls of the Writer for request r, by the handler and by the middlewares
WriterCalls(r) == { k \in 1..Len(ev[r]) : ev[r][k].op = "Write" }

NumPdWrites(t) == Cardinality({ k \in 1..Len(t) : t[k].op = "PdWrite" })

\* C12: the *Context of a request is created empty, Details() is nil until the
\* Writer runs, and for a handler that calls the Writer at most once, under
\* Recoverer and Converter in either order and whether it returns or panics,
\* the Writer runs at most once for the request, so the slot is set at most once.
C12_SlotWrittenOnce ==
    \A r \in Reqs :
        /\ (WriterCalls(r) = {} => Details(ctx[r]) = NoDetails)
        /\ (NumPdWrites(tr[r]) <= 1 => Cardinality(WriterCalls(r)) <= 1)

\* the part of C12 that holds: Details() is nil exactly until the Writer runs
SlotEmptyUntilWrite ==
    \A r \in Reqs : (WriterCalls(r) = {}) <=> (Details(ctx[r]) = NoDetails)

\* a value visible through Details() is not replaced while the request runs
SlotNeverReplaced ==
    [][ \A r \in Reqs :
          (Details(ctx[r]) # NoDetails /\ pc'[r] # "idle")
          => Details(ctx'[r]) = Details(ctx[r]) ]_vars

\* C13: in every state reached by WriteHeader and Write calls on an acquired
\* interceptor (any code, 0 included; any slice; before or after the commit),
\* bodyWritten implies status # 0.
C13_CommittedHasStatus ==
    \A r \in Reqs :
        (pc[r] = "handler" /\ held[r] # 0)
        => (ri[held[r]].bodyWritten => ri[held[r]].status # 0)

\* the invariant as far as it holds: at the moment of the commit, and as long
\* as no WriteHeader(0) follows it
CommitSetsStatus ==
    [][ \A r \in Reqs :
          (pc[r] = "handler" /\ held[r] # 0 /\ pc'[r] = "handler"
             /\ ~ri[held[r]].bodyWritten /\ ri'[held[r]].bodyWritten)
          => /\ ri'[held[r]].status # 0
             /\ w'[r].status = ri'[held[r]].status ]_vars

\* C14: once the interceptor is committed, every later Write of the handler,
\* whatever its slice and whatever status was recorded since, is forwarded to
\* the real writer's Write as one call, returns that call's result, and commits
\* no header again.
C14_CommittedWritesForwarded ==
    [][ \A r \in Reqs : \A body \in Bodies :
          ( /\ HandlerWrites(r, body)
            /\ held[r] # 0
            /\ ri[held[r]].bodyWritten )
          => /\ w'[r].nW = w[r].nW + 1
             /\ w'[r].body = w[r].body \o body
             /\ w'[r].nWH = w[r].nWH
             /\ w'[r].status = w[r].status
             /\ ret'[r] = [n |-> Len(body), err |-> None]
      ]_vars

\* what holds: a committed interceptor forwards every Write that is not an
\* empty slice under a recorded status >= 400
CommittedWritesForwardedUnlessSwallowed ==
    [][ \A r \in Reqs : \A body \in Bodies :
          ( /\ HandlerWrites(r, body)
            /\ held[r] # 0
            /\ ri[held[r]].bodyWritten
            /\ ~(ri[held[r]].status >= ErrorStatusMin /\ body = << >>) )
          => /\ w'[r].nW = w[r].nW + 1
             /\ w'[r].body = w[r].body \o body
             /\ w'[r].nWH = w[r].nWH
             /\ w'[r].status = w[r].status
             /\ ret'[r] = [n |-> Len(body), err |-> None]
      ]_vars

\* C15: every interceptor that sits in the pool has its ResponseWriter
\* reference cleared, however the Converter's invocation ended: the handler
\* returned, panicked with a generic value, or panicked with the abort sentinel.
C15_PooledUnbound ==
    \A i \in pool : ri[i].rw = Nil

\* what holds: an instance released after a normal return is unbound
PooledUnboundAfterReturn ==
    [][ \A r \in Reqs :
          ConverterReturns(r) => (held[r] \in pool' /\ ri'[held[r]].rw = Nil) ]_vars

(***************************************************************************)
(* Requests running concurrently: every request has its own goroutine, and *)
(* the goroutines share interceptorPool only.                              *)
(***************************************************************************)
\* sync.Pool.Get(): any instance of the pool, or one New makes
PoolGetAny(i) ==
    \/ i \in pool
    \/ /\ i \in Unmade
       /\ \A j \in Unmade : i <= j

\* ProblemDetailsConverter is entered for request r, whatever the others do;
\* a new request takes the lowest free slot
StartConc(r) ==
    /\ pc[r] = "idle"
    /\ \A q \in Reqs : q < r => pc[q] # "idle"
    /\ cfg' = [cfg EXCEPT ![r].chain = <<"Converter">>]
    /\ \E i \in Ris :
          /\ PoolGetAny(i)
          /\ pool' = pool \ {i}
          /\ held' = [held EXCEPT ![r] = i]
          /\ SetHeapM(ConverterEnterS(ContextEnterS(Heap(r), r), r, i))
    /\ pc' = [pc EXCEPT ![r] = "handler"]
    /\ UNCHANGED <<nextReq, pos, got, tr, pv>>

\* the handlers of concurrent requests only write
HandlerCallsConc ==
    { [NoOp EXCEPT !.op = "Write", !.body = <<"a">>] }

HStepConc(r) ==
    /\ Len(tr[r]) < ConcOps
    /\ \E o \in HandlerCallsConc : HandlerStep(r, o)

\* with no Recoverer in the chain every panic value passes the Converter alike
HPanicConc(r) ==
    /\ pc[r] = "handler"
    /\ pv' = [pv EXCEPT ![r] = "foo"]
    /\ Leave(r, "panic")
    /\ UNCHANGED <<nextReq, ri, pool, w, ev, ret, cfg, held, got, tr, ctx>>

NextConc ==
    \E r \in Reqs :
        \/ StartConc(r)
        \/ HStepConc(r)
        \/ HReturn(r)
        \/ HPanicConc(r)
        \/ ConverterAfter(r)
        \/ ConverterUnwind(r)
        \/ Finish(r)

SpecConc == Init /\ [][NextConc]_vars

\* the real writer of request r holds what its own handler and middlewares
\* did, and nothing else
OwnWriterOnly(r) ==
    LET chain == cfg[r].chain
        C0 == ContextEnterS(InitHeap, r)
        S0 == IF HasConverter(chain) THEN ConverterEnterS(C0, r, 1) ELSE C0
        ch == IF HasConverter(chain) THEN RiCh(1) ELSE RwCh(r)
    IN /\ pc[r] = "idle" => w[r] = NewWriter
       /\ (pc[r] = "handler" \/ (pc[r] \in {"return", "panic"} /\ pos[r] = Len(chain)))
             => w[r] = RunOps(S0, r, ch, tr[r]).w[r]
       /\ Finished(r) => w[r] = Replay(r, chain, tr[r], EndOf(r)).heap.w[r]

\* C16: with requests running concurrently through the Converter, no
\* interceptor is held by two requests at once or sits in the pool while held,
\* the interceptor a handler uses is bound to its own request's writer, and a
\* request's real writer receives only what that request's own calls forward,
\* also when the instance came back to the pool from a handler that panicked.
C16_NoSharing ==
    /\ \A r, q \in Reqs : (r # q /\ held[r] # 0) => held[r] # held[q]
    /\ \A r \in Reqs : held[r] # 0 => held[r] \notin pool
    /\ \A r \in Reqs : pc[r] = "handler" => (held[r] \in Ris /\ ri[held[r]].rw = r)
    /\ \A r \in Reqs : OwnWriterOnly(r)

\* request 1 wrote, panicked and released the only instance made so far, still
\* bound to its writer; request 2 took it from the pool and writes on its own
C16_Witness ==
    /\ pc[1] = "escaped" /\ pv[1] = "foo" /\ w[1].body = <<"a">>
    /\ 2 \in Unmade
    /\ pc[2] = "handler" /\ held[2] = 1
    /\ ri[1].rw = 2
    /\ w[2].body = <<"a">>

\* this step is the Recoverer of request r ending, entered the way kind says
RecovererEnds(r, kind) == AtMiddleware(r, kind, "Recoverer") /\ pos'[r] # pos[r]

\* C17: a value recovered by Recoverer has exactly one of three outcomes,
\* decided in this order: the abort sentinel is re-raised, also on an Upgrade
\* request, and nothing is written; otherwise a request with Connection:
\* Upgrade ends silently, with no Writer call; otherwise the Writer is called
\* exactly once, with status 500.  Only the abort sentinel leaves the
\* Recoverer as a panic, and when the handler did not panic the Recoverer
\* calls nothing.
C17_ThreeOutcomes ==
    [][ \A r \in Reqs :
          /\ RecovererEnds(r, "panic") =>
                IF pv[r] = ErrAbortHandler
                THEN /\ pc'[r] \in {"panic", "escaped"}
                     /\ pv'[r] = pv[r]
                     /\ ev'[r] = ev[r] /\ w' = w /\ ri' = ri
                ELSE IF cfg[r].connection = Upgrade
                THEN /\ pc'[r] \in {"return", "done"}
                     /\ ev'[r] = ev[r] /\ w' = w /\ ri' = ri
                ELSE /\ pc'[r] \in {"return", "done"}
                     /\ Len(ev'[r]) = Len(ev[r]) + 1
                     /\ SubSeq(ev'[r], 1, Len(ev[r])) = ev[r]
                     /\ ev'[r][Len(ev'[r])].op = "Write"
                     /\ ev'[r][Len(ev'[r])].by = "Recoverer"
                     /\ ev'[r][Len(ev'[r])].status = StatusInternalServerError
          /\ RecovererEnds(r, "return") =>
                /\ pv[r] = None
                /\ pc'[r] \in {"return", "done"}
                /\ ev'[r] = ev[r] /\ w' = w /\ ri' = ri
      ]_vars

\* an Upgrade request whose handler wrote and panicked with "foo" under an
\* outermost Recoverer: absorbed, and the Writer was not called
C17_Witness ==
    \E r \in Reqs :
        /\ pc[r] = "done" /\ pv[r] = "foo"
        /\ cfg[r].chain = <<"Recoverer", "Converter">>
        /\ cfg[r].connection = Upgrade
        /\ WriterCalls(r) = {}
        /\ w[r].body = <<"a">>

HandlerWriteHeaders(r) ==
    /\ pc[r] = "handler"
    /\ Len(tr'[r]) = Len(tr[r]) + 1
    /\ tr'[r][Len(tr'[r])].op = "WriteHeader"

\* C19: WriteHeader on the interceptor calls nothing on the real writer, and
\* the status committed there by the first committing Write is the code of
\* the last WriteHeader call before it, or 200 when there was none or its
\* code was 0; earlier codes and swallowed empty writes do not count.
C19_LastStatusCommitted ==
    [][ \A r \in Reqs :
          /\ (HandlerWriteHeaders(r) /\ held[r] # 0) => w' = w
          /\ \A body \in Bodies :
                ( /\ HandlerWrites(r, body)
                  /\ held[r] # 0
                  /\ ~ri[held[r]].bodyWritten
                  /\ ri'[held[r]].bodyWritten )
                => /\ w[r].nWH = 0 /\ w[r].status = 0
                   /\ w'[r].nWH = 1
                   /\ w'[r].status =
                         IF LastCode(tr[r]) = 0 THEN StatusOK ELSE LastCode(tr[r])
      ]_vars

\* WriteHeader(204), WriteHeader(404), Write("a"): 404 is committed, once
C19_Witness ==
    \E r \in Reqs :
        /\ pc[r] = "handler" /\ held[r] # 0 /\ Len(tr[r]) = 3
        /\ tr[r][1].op = "WriteHeader" /\ tr[r][1].code = 204
        /\ tr[r][2].op = "WriteHeader" /\ tr[r][2].code = 404
        /\ tr[r][3].op = "Write" /\ tr[r][3].body = <<"a">>
        /\ w[r].status = 404 /\ w[r].nWH = 1

\* C20: when a handler run under the Converter has returned normally, the
\* real writer's WriteHeader has been called at most once for the request when
\* the Converter is done (by the interceptor's first committing Write, by the
\* fixup, or by the Writer in the conversion, never by two of them), and not
\* at all only when the handler leaves no recorded status and no committing
\* write.
C20_OneHeaderCommit ==
    [][ \A r \in Reqs :
          (ConverterReturns(r) /\ pv[r] = None)
          => LET x == ri[held[r]] IN
             /\ w'[r].nWH <= 1
             /\ (w'[r].nWH = 0) <=> (x.status = 0 /\ ~x.bodyWritten)
             /\ x.bodyWritten => (w[r].nWH = 1 /\ ev'[r] = ev[r])
             /\ ~x.bodyWritten => w[r].nWH = 0
      ]_vars

\* WriteHeader(404) and a swallowed empty Write: the one header commit is the
\* Writer's, in the conversion
C20_Witness ==
    \E r \in Reqs :
        /\ pc[r] = "done" /\ pv[r] = None
        /\ Len(tr[r]) = 2
        /\ tr[r][1].op = "WriteHeader" /\ tr[r][1].code = 404
        /\ tr[r][2].op = "Write" /\ tr[r][2].body = << >>
        /\ w[r].nWH = 1 /\ w[r].status = 404
        /\ Cardinality(EventsOf(r, "Write", "Converter")) = 1
====
